---- MODULE Spec2Model ----
(***************************************************************************)
(* Model of the OpenChat2.0 backend: model resolution (provider/ollama.py), *)
(* the session history store (memory/store.py), and the one-shot and SSE   *)
(* chat handlers of app.py.                                                 *)
(*                                                                          *)
(* Texts that the code inspects character by character (system prompt,     *)
(* roles, contents) are sequences of one-character strings.  Model         *)
(* identifiers, which the code only compares and passes on, are strings.   *)
(* A formatted string (an f-string, str(e)) is the tuple of its parts.     *)
(***************************************************************************)
EXTENDS Integers, Sequences, FiniteSets, TLC

\* ------------------------------------------------------------------ bounds

\* Longest list of installed models the daemon reports.
MaxInstalled == 2

\* Longest request history (the handlers keep the last HistoryLimit turns).
MaxHistory == 12

\* Most chunks one backend token stream produces.
MaxChunks == 3

\* Most chunks of one stream when two handlers are followed at once.
LoopChunks == 1

\* Requests are followed one after another while the store holds at most
\* this many turns.
MaxStoredTurns == 12

\* Longest generated message content given to the title heuristic.
MaxText == 4

\* Longest generated message list given to the title heuristic.
MaxTitleMessages == 3

\* ------------------------------------------------------- python primitives

\* Python's None, for an optional identifier.  An optional text or list that
\* the code only ever reads as `x or ""` / `x or []` / `if x` is modelled by
\* its empty value.
None == "<None>"

Min(a, b) == IF a < b THEN a ELSE b

Max(a, b) == IF a < b THEN b ELSE a

\* Truthiness of an optional identifier: None and "" are falsy.
Falsy(x) == x = None \/ x = ""

\* `x in names` for a list.
InSeq(x, s) == \E i \in 1..Len(s) : s[i] = x

IsSpace(c) == c \in {" ", "\t", "\n", "\r", "\f"}

RECURSIVE lstrip(_)
lstrip(t) == IF t # <<>> /\ IsSpace(Head(t)) THEN lstrip(Tail(t)) ELSE t

RECURSIVE rstrip(_)
rstrip(t) ==
    IF t # <<>> /\ IsSpace(t[Len(t)]) THEN rstrip(SubSeq(t, 1, Len(t) - 1)) ELSE t

\* str.strip()
strip(t) == rstrip(lstrip(t))

LowerChar(c) ==
    CASE c = "A" -> "a" [] c = "S" -> "s" [] c = "I" -> "i" [] c = "T" -> "t"
      [] c = "N" -> "n" [] c = "U" -> "u" [] c = "E" -> "e" [] c = "R" -> "r"
      [] c = "Y" -> "y" [] c = "M" -> "m" [] OTHER -> c

\* str.lower()
lower(t) == [i \in 1..Len(t) |-> LowerChar(t[i])]

\* A call either returns a value or raises an exception carrying a message.
Return(v) == [tag |-> "return", value |-> v]

Raise(m) == [tag |-> "raise", message |-> m]

\* ------------------------------------------------------------- environment

VARIABLES
    OLLAMA_AVAILABLE,   \* app.py: langchain_core could be imported
    provider,           \* how provider.ollama was imported by app.py
    daemon,             \* the Ollama daemon: reachable or not, and its /api/tags
    store_imported,     \* app.py: memory.store could be imported
    session_store,      \* memory/store.py: _session_store
    pc,                 \* per request: position of the handler
    req,                \* per request: the ChatRequest
    events,             \* per request: the events the generator has yielded
    llm,                \* per request: the model handle, once obtained
    msgs,               \* per request: the assembled model input
    produced,           \* per request: the chunks the backend has produced
    response,           \* per request: what the one-shot handler returned
    raised,             \* per request: the exceptions raised inside the handler's try
    waiting,            \* per request: inside a synchronous backend call, or not
    consumer,           \* per request: the consumer of the stream, listening or gone
    call,               \* a call of a pure function: its arguments
    ret                 \* ... and its result

envVars == <<OLLAMA_AVAILABLE, provider, daemon, store_imported>>

reqVars == <<pc, req, events, llm, msgs, produced, response, raised>>

vars == <<envVars, session_store, reqVars, waiting, consumer, call, ret>>

\* Identifiers the daemon may have installed or a caller may request.
ModelIds ==
    {"llama3.1:8b", "llama3.1", "llama3:8b", "qwen2.5:7b", "mistral:7b", "gpt-99", "phi3"}

\* --------------------------------------------------- provider/ollama.py

PreferenceList == <<"llama3.1:8b", "llama3.1", "llama3:8b", "qwen2.5:7b", "mistral:7b">>

GenericFallback == "llama3.1"

\* list_models(): the names of /api/tags, entries with no name dropped; the
\* empty list when the daemon cannot be reached.
list_models ==
    IF daemon.online THEN SelectSeq(daemon.tags, LAMBDA n : ~Falsy(n)) ELSE <<>>

ChatOllama(model, streaming) == [model |-> model, streaming |-> streaming]

NotInstalledMessage(selected, names) ==
    <<"Requested model '", selected,
      "' is not installed in Ollama. Install it (e.g., 'ollama pull ", selected,
      "') or select an installed model: ", names>>

\* The candidate loop without its `break`: the last installed candidate wins.
RECURSIVE PickDefault_noBreak(_, _, _)
PickDefault_noBreak(i, selected, names) ==
    IF i > Len(PreferenceList) THEN selected
    ELSE PickDefault_noBreak(
             i + 1,
             IF InSeq(PreferenceList[i], names) THEN PreferenceList[i] ELSE selected,
             names)

\* The `for cand in (...)` loop: the first candidate that is installed, or
\* `selected` as it was.
RECURSIVE PickDefault(_, _, _)
PickDefault(i, selected, names) ==
    IF i > Len(PreferenceList) THEN selected
    ELSE IF InSeq(PreferenceList[i], names) THEN PreferenceList[i]
    ELSE PickDefault(i + 1, selected, names)

\* get_llm falling back to the default choice for a requested model that is
\* not installed, instead of raising.
provider_get_llm_substituting(model, streaming) ==
    LET names == list_models
        wanted == IF ~Falsy(model) /\ InSeq(model, names) THEN model ELSE None
        cand == IF Falsy(wanted) THEN PickDefault(1, wanted, names) ELSE wanted
        selected == IF Falsy(cand)
                    THEN (IF names # <<>> THEN names[1] ELSE GenericFallback)
                    ELSE cand
    IN  Return(ChatOllama(selected, streaming))

\* The provider's get_llm, with langchain-ollama importable.
provider_get_llm(model, streaming) ==
    LET names == list_models
    IN  IF ~Falsy(model)
        THEN IF ~InSeq(model, names)
             THEN Raise(NotInstalledMessage(model, names))
             ELSE Return(ChatOllama(model, streaming))
        ELSE LET cand == PickDefault(1, model, names)
                 selected == IF Falsy(cand)
                             THEN (IF names # <<>> THEN names[1] ELSE GenericFallback)
                             ELSE cand
             IN  Return(ChatOllama(selected, streaming))

\* get_llm as app.py sees it: the stub when the provider module could not be
\* imported, the provider's own guard when langchain-ollama is missing.
get_llm(model, streaming) ==
    CASE provider = "import_failed" -> Raise(<<"Ollama provider not available">>)
      [] provider = "no_langchain_ollama" -> Raise(<<"langchain-ollama not installed">>)
      [] OTHER -> provider_get_llm(model, streaming)

\* --------------------------------------------------------- memory/store.py

\* A get-or-create that makes a new, empty history at every call.
get_session_history_fresh(store, session_id) == (session_id :> <<>>) @@ store

\* get_session_history(session_id): the store after the call; a session that
\* is absent is created with no messages.
get_session_history(store, session_id) ==
    IF session_id \in DOMAIN store THEN store ELSE store @@ (session_id :> <<>>)

\* ------------------------------------------------- app.py: message assembly

HumanMessage(content) == [type |-> "human", content |-> content]

AIMessage(content) == [type |-> "ai", content |-> content]

\* The handlers use at most this many history turns: `req.history[-10:]`.
HistoryLimit == 10

SystemMarker == <<"[", "S", "Y", "S", "T", "E", "M", "]", "\n">>

assistant == <<"a", "s", "s", "i", "s", "t", "a", "n", "t">>

\* s[:n], the oldest n items: the slice taken from the wrong end.
FirstN(s, n) == SubSeq(s, 1, Min(Len(s), n))

\* s[-n:]
LastN(s, n) == SubSeq(s, Max(1, Len(s) - n + 1), Len(s))

\* One history item as a model message: AIMessage for role "assistant"
\* (compared in lower case), HumanMessage for any other role.
to_message(h) ==
    IF lower(h.role) = assistant THEN AIMessage(h.content) ELSE HumanMessage(h.content)

\* The `for h in req.history[-10:]` loop appending to `msgs`.
RECURSIVE append_history(_, _)
append_history(acc, hs) ==
    IF hs = <<>> THEN acc
    ELSE append_history(Append(acc, to_message(Head(hs))), Tail(hs))

\* The message list both handlers build (chat and event_stream repeat the
\* same statements): the system note, the history slice, the new message.
build_messages(system, history, message) ==
    LET m0 == <<>>
        m1 == IF strip(system) # <<>>
              THEN Append(m0, HumanMessage(SystemMarker \o system))
              ELSE m0
        m2 == IF history # <<>>
              THEN append_history(m1, LastN(history, HistoryLimit))
              ELSE m1
    IN  Append(m2, HumanMessage(message))

\* ------------------------------------------------------ app.py: the events

\* The payload of each `data: {...}` frame the generator yields.
TokenEvent(text) == [type |-> "token", text |-> text]

MetaEvent(model, history) == [type |-> "meta", model |-> model, history |-> history]

ErrorEvent(message) == [type |-> "error", message |-> message]

DoneEvent == [type |-> "done"]

\* The fallback notice sent as an error event.
FallbackToken_asError ==
    ErrorEvent(<<"Backend running. Install langchain-ollama for live streaming. ">>)

FallbackToken ==
    TokenEvent(<<"Backend running. Install langchain-ollama for live streaming. ">>)

FallbackOutput == <<"Backend is running, but langchain-ollama is not installed.">>

\* The session key taken as the request gives it, without the default.
session_id_of_raw(rq) == rq.conversation_id

\* `(req.user_context or {}).get("conversation_id") or "default"`
session_id_of(rq) ==
    IF Falsy(rq.conversation_id) THEN "default" ELSE rq.conversation_id

\* `req.model or "llama3.1"`
model_or_default(rq) == IF Falsy(rq.model) THEN "llama3.1" ELSE rq.model

\* A seeding loop that skips a turn the session holds already.
RECURSIVE add_messages_once(_, _)
add_messages_once(log, hs) ==
    IF hs = <<>> THEN log
    ELSE IF InSeq(to_message(Head(hs)), log) THEN add_messages_once(log, Tail(hs))
    ELSE add_messages_once(Append(log, to_message(Head(hs))), Tail(hs))

\* hist.add_ai_message / hist.add_user_message for one history item.
RECURSIVE add_messages(_, _)
add_messages(log, hs) ==
    IF hs = <<>> THEN log
    ELSE add_messages(Append(log, to_message(Head(hs))), Tail(hs))

\* A seeding block that appends the turns to every session of the store.
seed_history_everywhere(store, rq) ==
    IF ~store_imported THEN store
    ELSE LET got == get_session_history(store, session_id_of(rq))
         IN  [sid \in DOMAIN got |-> add_messages(got[sid], LastN(rq.history, HistoryLimit))]

\* A seeding block that stores a new session object at every call.
seed_history_overwriting(store, rq) ==
    IF ~store_imported THEN store
    ELSE LET sid == session_id_of(rq)
         IN  (sid :> add_messages(<<>>, LastN(rq.history, HistoryLimit))) @@ store

\* The seeding block of event_stream: get-or-create the session, append the
\* last HistoryLimit history items.  With the store's import failed the stub
\* raises at once and the `except` leaves the store as it was.
seed_history(store, rq) ==
    IF ~store_imported THEN store
    ELSE LET sid == session_id_of(rq)
             got == get_session_history(store, sid)
         IN  IF rq.history # <<>>
             THEN [got EXCEPT ![sid] = add_messages(@, LastN(rq.history, HistoryLimit))]
             ELSE got

\* A seeding block whose failure is sent to the consumer.
seed_except_reported(imported) ==
    IF imported THEN <<>> ELSE <<ErrorEvent(<<"History store not available">>)>>

\* What the seeding block yields: nothing, also when get_session_history
\* raised (`except Exception: pass`).
seed_except(imported) == <<>>

\* ------------------------------------------------ app.py: _heuristic_title

\* In the texts of titles an element is one character, or a run of letters
\* written as one element ("Deploy"): no statement of _heuristic_title looks
\* inside a run of letters.
user == <<"u", "s", "e", "r">>

NewChat == <<"New", " ", "Chat">>

\* The backtick character (written by name: the notation keeps the character
\* itself for other uses) and the fence marker, three of them.
Backtick == "<backtick>"

Backticks == <<Backtick, Backtick, Backtick>>

\* First loop: the content of the last message with role "user" (in lower
\* case) and non-blank content; "" when there is none.
RECURSIVE last_user_content(_, _)
last_user_content(messages, i) ==
    IF i = 0 THEN <<>>
    ELSE IF lower(messages[i].role) = user /\ strip(messages[i].content) # <<>>
         THEN messages[i].content
         ELSE last_user_content(messages, i - 1)

\* Second loop: the content of the last message with non-blank content.
RECURSIVE last_any_content(_, _)
last_any_content(messages, i) ==
    IF i = 0 THEN <<>>
    ELSE IF strip(messages[i].content) # <<>>
         THEN messages[i].content
         ELSE last_any_content(messages, i - 1)

\* The source stopping at the first loop: assistant text is never used.
select_source_userOnly(messages) ==
    LET t1 == last_user_content(messages, Len(messages))
    IN  strip(IF t1 = <<>> THEN NewChat ELSE t1)

\* Lines 144-154: the source text, trimmed.
select_source(messages) ==
    LET t1 == last_user_content(messages, Len(messages))
        t2 == IF t1 = <<>> THEN last_any_content(messages, Len(messages)) ELSE t1
    IN  strip(IF t2 = <<>> THEN NewChat ELSE t2)

StartsWith(t, prefix) ==
    Len(t) >= Len(prefix) /\ SubSeq(t, 1, Len(prefix)) = prefix

Drop(t, n) == SubSeq(t, n + 1, Len(t))

\* The first position >= i at which a closing ``` starts, 0 when there is none.
RECURSIVE fence_close(_, _)
fence_close(t, i) ==
    IF i + 2 > Len(t) THEN 0
    ELSE IF SubSeq(t, i, i + 2) = Backticks THEN i
    ELSE fence_close(t, i + 1)

\* re.sub(r"```[\s\S]*?```", " ", text): each fenced region, from an opening
\* ``` to the nearest closing ```, becomes one space.
RECURSIVE sub_fences(_)
sub_fences(t) ==
    IF t = <<>> THEN <<>>
    ELSE LET j == IF StartsWith(t, Backticks) THEN fence_close(t, 4) ELSE 0
         IN  IF j > 0 THEN <<" ">> \o sub_fences(Drop(t, j + 2))
             ELSE <<Head(t)>> \o sub_fences(Tail(t))

RECURSIVE drop_while_hash(_)
drop_while_hash(t) == IF t # <<>> /\ Head(t) = "#" THEN drop_while_hash(Tail(t)) ELSE t

\* The heading rule removing the heading line with its text.
RECURSIVE sub_headings_wholeLine(_, _)
sub_headings_wholeLine(t, bol) ==
    LET RECURSIVE after_line(_)
        after_line(x) == IF x = <<>> THEN <<>>
                         ELSE IF Head(x) = "\n" THEN Tail(x)
                         ELSE after_line(Tail(x))
    IN  IF t = <<>> THEN <<>>
        ELSE IF bol /\ Head(t) = "#" THEN sub_headings_wholeLine(after_line(t), TRUE)
        ELSE <<Head(t)>> \o sub_headings_wholeLine(Tail(t), Head(t) = "\n")

\* re.sub(r"^#+\s*", "", text, flags=re.M): at the start of the text and after
\* each newline, a run of # and the whitespace after it are removed.  `bol`
\* says that the position is a line start.
RECURSIVE sub_headings(_, _)
sub_headings(t, bol) ==
    IF t = <<>> THEN <<>>
    ELSE IF bol /\ Head(t) = "#"
         THEN LET afterHash == drop_while_hash(t)
                  rest == lstrip(afterHash)
                  eaten == SubSeq(t, 1, Len(t) - Len(rest))
              IN  sub_headings(rest, eaten[Len(eaten)] = "\n")
         ELSE <<Head(t)>> \o sub_headings(Tail(t), Head(t) = "\n")

\* re.sub(r"\s+", " ", text): every run of whitespace becomes one space.
RECURSIVE collapse_ws(_)
collapse_ws(t) ==
    IF t = <<>> THEN <<>>
    ELSE IF IsSpace(Head(t)) THEN <<" ">> \o collapse_ws(lstrip(t))
    ELSE <<Head(t)>> \o collapse_ws(Tail(t))

\* text.split(" "): the pieces between single spaces; [""] for "".
RECURSIVE split_sp(_, _)
split_sp(t, word) ==
    IF t = <<>> THEN <<word>>
    ELSE IF Head(t) = " " THEN <<word>> \o split_sp(Tail(t), <<>>)
    ELSE split_sp(Tail(t), Append(word, Head(t)))

\* " ".join(words)
RECURSIVE join_sp(_)
join_sp(words) ==
    IF words = <<>> THEN <<>>
    ELSE IF Len(words) = 1 THEN words[1]
    ELSE words[1] \o <<" ">> \o join_sp(Tail(words))

\* words[:n] for any integer n: a negative n counts from the end.
slice_to(words, n) ==
    LET stop == IF n >= 0 THEN Min(n, Len(words)) ELSE Max(0, Len(words) + n)
    IN  SubSeq(words, 1, stop)

\* Lines 161-163: keep the first max_words words when there are more.
limit_words(t, max_words) ==
    LET words == split_sp(t, <<>>)
    IN  IF Len(words) > max_words THEN join_sp(slice_to(words, max_words)) ELSE t

IsQuote(c) == c \in {"\"", "'", Backtick, " "}

RECURSIVE lstrip_quotes(_)
lstrip_quotes(t) == IF t # <<>> /\ IsQuote(Head(t)) THEN lstrip_quotes(Tail(t)) ELSE t

RECURSIVE rstrip_quotes(_)
rstrip_quotes(t) ==
    IF t # <<>> /\ IsQuote(t[Len(t)]) THEN rstrip_quotes(SubSeq(t, 1, Len(t) - 1)) ELSE t

\* text.strip(chars) with the double quote, the single quote, the backtick and
\* the space as chars.
strip_quotes(t) == rstrip_quotes(lstrip_quotes(t))

IsEndPunct(c) == c \in {".", ",", ";", ":", "!", "?", "-"} \/ IsSpace(c)

\* re.sub(r"[\.,;:!?\-\s]+$", "", text)
RECURSIVE rstrip_punct(_)
rstrip_punct(t) ==
    IF t # <<>> /\ IsEndPunct(t[Len(t)]) THEN rstrip_punct(SubSeq(t, 1, Len(t) - 1)) ELSE t

\* Lines 155-166: the cleaning of the source text.
clean_text(source, max_words) ==
    LET t1 == sub_fences(source)
        t2 == sub_headings(t1, TRUE)
        t3 == strip(collapse_ws(t2))
        t4 == limit_words(t3, max_words)
    IN  rstrip_punct(strip_quotes(t4))

\* Line 167: `return text or "New Chat"`.
clean_title(source, max_words) ==
    LET text == clean_text(source, max_words)
    IN  IF text = <<>> THEN NewChat ELSE text

\* _heuristic_title(messages, max_words)
heuristic_title(messages, max_words) == clean_title(select_source(messages), max_words)

\* ------------------------------------------------ inputs and initial state

\* The requests followed: the handlers share nothing but the session store, so
\* one request shows every path of a handler.
Reqs == {1}

SeqsUpTo(S, n) == UNION {[1..k -> S] : k \in 0..n}

\* What /api/tags may hold: installed names, an entry without a name as "".
Daemons == [online : BOOLEAN, tags : SeqsUpTo(ModelIds \cup {""}, MaxInstalled)]

Providers == {"ok", "no_langchain_ollama", "import_failed"}

Pending == [tag |-> "pending"]

\* A local variable of a handler that is not bound yet.
Unset == [unset |-> TRUE]

NoCall == [fn |-> "none"]

\* No request has arrived and nothing is stored.
Quiet ==
    /\ session_store = <<>>
    /\ pc = [r \in Reqs |-> "idle"]
    /\ req = [r \in Reqs |-> Unset]
    /\ events = [r \in Reqs |-> <<>>]
    /\ llm = [r \in Reqs |-> Unset]
    /\ msgs = [r \in Reqs |-> <<>>]
    /\ produced = [r \in Reqs |-> <<>>]
    /\ response = [r \in Reqs |-> Unset]
    /\ raised = [r \in Reqs |-> <<>>]
    /\ waiting = [r \in Reqs |-> "no"]
    /\ consumer = [r \in Reqs |-> "listening"]

Digit == <<"0", "1", "2", "3", "4", "5", "6", "7", "8", "9">>

\* The content of the i-th history item: distinct for distinct i.
ContentOf(i) == <<"h", Digit[(i \div 10) + 1], Digit[(i % 10) + 1]>>

\* Roles a caller may send: HistoryItem.role is any string.
RolePattern ==
    << <<"u", "s", "e", "r">>,
       <<"A", "s", "s", "i", "s", "t", "a", "n", "t">>,
       <<"s", "y", "s", "t", "e", "m">>,
       <<"A", "S", "S", "I", "S", "T", "A", "N", "T">>,
       <<"a", "s", "s", "i", "s", "t", "a", "n", "t">>,
       <<"a", "s", "s", "i", "s", "t", "a", "n", "t", " ">>,
       <<>> >>

\* A history of n items whose roles run through RolePattern from position p.
History(n, p) ==
    [i \in 1..n |->
        [role |-> RolePattern[((i + p) % Len(RolePattern)) + 1], content |-> ContentOf(i)]]

Histories == {History(n, p) : n \in 0..MaxHistory, p \in 0..(Len(RolePattern) - 1)}

\* System prompts: absent or empty, blank, and with text.
Systems == SeqsUpTo({" ", "\n", "s"}, 2)

Messages == {<<>>, <<"h", "i">>}

\* Requests of the handler specification: with and without a model, a
\* system prompt, a conversation id; no history, a short one, a long one.
ChatRequests ==
    [message : {<<"h", "i">>},
     history : {History(0, 0), History(2, 0), History(MaxHistory, 3)},
     model : {None, "", "llama3.1", "mistral:7b"},
     system : {<<>>, <<"s">>},
     conversation_id : {None, "", "s1"}]

HandlerDaemons ==
    {[online |-> FALSE, tags |-> <<"llama3.1">>],
     [online |-> TRUE, tags |-> <<>>],
     [online |-> TRUE, tags |-> <<"mistral:7b">>],
     [online |-> TRUE, tags |-> <<"phi3", "llama3.1">>]}

\* Texts of the chunks a backend stream produces; <<>> is a chunk without text.
ChunkTexts == {<<>>, <<"a">>, <<"b">>}

\* What llm.stream / llm.invoke may raise.
BackendFailures == {<<"connection refused">>, <<"malformed chunk">>}

\* What llm.invoke may answer.
Answers == {<<>>, <<"o", "k">>}

\* ------------------------------------------- app.py: chat_sse.event_stream

\* chat_sse(req): the generator is created; nothing of it has run.
SseRequest(r) ==
    /\ pc[r] = "idle"
    /\ \E rq \in ChatRequests : req' = [req EXCEPT ![r] = rq]
    /\ pc' = [pc EXCEPT ![r] = "sse_created"]
    /\ UNCHANGED <<envVars, session_store, events, llm, msgs, produced, response,
                   raised, consumer, call, ret>>
    /\ waiting' = [waiting EXCEPT ![r] = "no"]

\* `if not OLLAMA_AVAILABLE:` first yield, the informational token.
SseFallbackToken(r) ==
    /\ pc[r] = "sse_created"
    /\ ~OLLAMA_AVAILABLE
    /\ events' = [events EXCEPT ![r] = Append(@, FallbackToken)]
    /\ pc' = [pc EXCEPT ![r] = "sse_fallback"]
    /\ UNCHANGED <<envVars, session_store, req, llm, msgs, produced, response,
                   raised, consumer, call, ret>>
    /\ waiting' = [waiting EXCEPT ![r] = "no"]

\* ... second yield, done; the `return` follows in SseReturn.
SseFallbackDone(r) ==
    /\ pc[r] = "sse_fallback"
    /\ events' = [events EXCEPT ![r] = Append(@, DoneEvent)]
    /\ pc' = [pc EXCEPT ![r] = "sse_done"]
    /\ UNCHANGED <<envVars, session_store, req, llm, msgs, produced, response,
                   raised, consumer, call, ret>>
    /\ waiting' = [waiting EXCEPT ![r] = "no"]

\* An except clause that ends the stream itself, ahead of `finally`.
sse_except_andDone(e) == <<ErrorEvent(e), DoneEvent>>

\* An except clause that swallows the failure without reporting it.
sse_except_silent(e) == <<>>

\* What the `except Exception as e:` clause of event_stream yields.
sse_except(e) == <<ErrorEvent(e)>>

\* The meta event: the handle's model and `len(req.history or [])`.
sse_meta(handle, rq) ==
    MetaEvent(IF Falsy(handle.model) THEN model_or_default(rq) ELSE handle.model,
              Len(rq.history))

\* The meta block never reaching its yield.
sse_meta_events_dropped(handle, rq) == <<>>

\* The `try: meta = ...; yield ...; except Exception: pass` block.  Nothing in
\* it can raise (json.dumps of two strings and an int), so its yield happens.
sse_meta_events(handle, rq) == <<sse_meta(handle, rq)>>

\* First resumption with the integration present: seed the session, get the
\* handle, build the message list, yield meta.
SseOpen(r) ==
    /\ pc[r] = "sse_created"
    /\ OLLAMA_AVAILABLE
    /\ session_store' = seed_history(session_store, req[r])
    /\ LET got == get_llm(model_or_default(req[r]), TRUE)
       IN  /\ got.tag = "return"
           /\ llm' = [llm EXCEPT ![r] = got.value]
           /\ msgs' = [msgs EXCEPT ![r] =
                          build_messages(req[r].system, req[r].history, req[r].message)]
           /\ events' = [events EXCEPT ![r] =
                            @ \o seed_except(store_imported)
                              \o sse_meta_events(got.value, req[r])]
    /\ pc' = [pc EXCEPT ![r] = "sse_streaming"]
    /\ UNCHANGED <<envVars, req, produced, response, raised, consumer, call, ret>>
    /\ waiting' = [waiting EXCEPT ![r] = "no"]

\* First resumption, get_llm raising: seed the session, yield error.
SseOpenFails(r) ==
    /\ pc[r] = "sse_created"
    /\ OLLAMA_AVAILABLE
    /\ session_store' = seed_history(session_store, req[r])
    /\ LET got == get_llm(model_or_default(req[r]), TRUE)
       IN  /\ got.tag = "raise"
           /\ raised' = [raised EXCEPT ![r] = Append(@, got.message)]
           /\ events' = [events EXCEPT ![r] =
                            @ \o seed_except(store_imported) \o sse_except(got.message)]
    /\ pc' = [pc EXCEPT ![r] = "sse_error"]
    /\ UNCHANGED <<envVars, req, llm, msgs, produced, response, consumer, call, ret>>
    /\ waiting' = [waiting EXCEPT ![r] = "no"]

\* The loop body without its `if not txt: continue`.
sse_chunk_events_noSkip(chunk) == <<TokenEvent(chunk.content)>>

\* `txt = getattr(chunk, "content", "")`; `if not txt: continue`; else the
\* token event.
sse_chunk_events(chunk) ==
    IF chunk.content = <<>> THEN <<>> ELSE <<TokenEvent(chunk.content)>>

\* One iteration of `for chunk in llm.stream(msgs)`: the backend produces a
\* chunk; a chunk with text is yielded as a token, one without is skipped and
\* the loop goes on to the next chunk without leaving the generator.
SseChunk(r) ==
    /\ pc[r] = "sse_streaming"
    /\ Len(produced[r]) < MaxChunks
    /\ \E t \in ChunkTexts :
         LET chunk == [content |-> t]
         IN  /\ produced' = [produced EXCEPT ![r] = Append(@, chunk)]
             /\ events' = [events EXCEPT ![r] = @ \o sse_chunk_events(chunk)]
             /\ waiting' = [waiting EXCEPT ![r] =
                                IF sse_chunk_events(chunk) = <<>> THEN @ ELSE "no"]
    /\ UNCHANGED <<envVars, session_store, pc, req, llm, msgs, response, raised,
                   consumer, call, ret>>

\* llm.stream raises, at its start or between chunks: yield error.
SseStreamRaises(r) ==
    /\ pc[r] = "sse_streaming"
    /\ \E e \in BackendFailures :
         /\ raised' = [raised EXCEPT ![r] = Append(@, e)]
         /\ events' = [events EXCEPT ![r] = @ \o sse_except(e)]
    /\ pc' = [pc EXCEPT ![r] = "sse_error"]
    /\ UNCHANGED <<envVars, session_store, req, llm, msgs, produced, response,
                   consumer, call, ret>>
    /\ waiting' = [waiting EXCEPT ![r] = "no"]

\* What the `finally:` clause of event_stream yields.
sse_finally == <<DoneEvent>>

\* The backend stream ends: the loop exits and `finally` yields done.
SseStreamEnds(r) ==
    /\ pc[r] = "sse_streaming"
    /\ events' = [events EXCEPT ![r] = @ \o sse_finally]
    /\ pc' = [pc EXCEPT ![r] = "sse_done"]
    /\ UNCHANGED <<envVars, session_store, req, llm, msgs, produced, response,
                   raised, consumer, call, ret>>
    /\ waiting' = [waiting EXCEPT ![r] = "no"]

\* Resumption after the error event: `finally` yields done.
SseErrorDone(r) ==
    /\ pc[r] = "sse_error"
    /\ events' = [events EXCEPT ![r] = @ \o sse_finally]
    /\ pc' = [pc EXCEPT ![r] = "sse_done"]
    /\ UNCHANGED <<envVars, session_store, req, llm, msgs, produced, response,
                   raised, consumer, call, ret>>
    /\ waiting' = [waiting EXCEPT ![r] = "no"]

\* Resumption after done: the generator returns.
SseReturn(r) ==
    /\ pc[r] = "sse_done"
    /\ pc' = [pc EXCEPT ![r] = "sse_closed"]
    /\ UNCHANGED <<envVars, session_store, req, events, llm, msgs, produced,
                   response, raised, consumer, call, ret>>
    /\ waiting' = [waiting EXCEPT ![r] = "no"]

\* ------------------------------------------------------------ app.py: chat

\* chat(req) is called.
ChatArrives(r) ==
    /\ pc[r] = "idle"
    /\ \E rq \in ChatRequests : req' = [req EXCEPT ![r] = rq]
    /\ pc' = [pc EXCEPT ![r] = "chat_called"]
    /\ UNCHANGED <<envVars, session_store, events, llm, msgs, produced, response,
                   raised, consumer, call, ret>>
    /\ waiting' = [waiting EXCEPT ![r] = "no"]

\* `if not OLLAMA_AVAILABLE:` the fixed answer, with `req.model or None`.
ChatFallback(r) ==
    /\ pc[r] = "chat_called"
    /\ ~OLLAMA_AVAILABLE
    /\ response' = [response EXCEPT ![r] =
                       [output |-> FallbackOutput,
                        model |-> IF Falsy(req[r].model) THEN None ELSE req[r].model]]
    /\ pc' = [pc EXCEPT ![r] = "chat_returned"]
    /\ UNCHANGED <<envVars, session_store, req, events, llm, msgs, produced,
                   raised, consumer, call, ret>>
    /\ waiting' = [waiting EXCEPT ![r] = "no"]

\* An except clause answering with an error field and no output.
chat_except_noOutput(e) == [error |-> <<"Error from model: ", e>>]

\* What the `except Exception as e:` clause of chat returns.
chat_except(e) == [output |-> <<"Error from model: ", e>>]

\* get_llm raises: the error is returned as the output.
ChatResolveFails(r) ==
    /\ pc[r] = "chat_called"
    /\ OLLAMA_AVAILABLE
    /\ LET got == get_llm(model_or_default(req[r]), FALSE)
       IN  /\ got.tag = "raise"
           /\ raised' = [raised EXCEPT ![r] = Append(@, got.message)]
           /\ response' = [response EXCEPT ![r] = chat_except(got.message)]
    /\ pc' = [pc EXCEPT ![r] = "chat_returned"]
    /\ UNCHANGED <<envVars, session_store, req, events, llm, msgs, produced,
                   consumer, call, ret>>
    /\ waiting' = [waiting EXCEPT ![r] = "no"]

\* get_llm returns: the message list is built and llm.invoke is handed to the
\* executor; the handler awaits it.
ChatInvoke(r) ==
    /\ pc[r] = "chat_called"
    /\ OLLAMA_AVAILABLE
    /\ LET got == get_llm(model_or_default(req[r]), FALSE)
       IN  /\ got.tag = "return"
           /\ llm' = [llm EXCEPT ![r] = got.value]
           /\ msgs' = [msgs EXCEPT ![r] =
                          build_messages(req[r].system, req[r].history, req[r].message)]
    /\ pc' = [pc EXCEPT ![r] = "chat_invoking"]
    /\ UNCHANGED <<envVars, session_store, req, events, produced, response,
                   raised, consumer, call, ret>>
    /\ waiting' = [waiting EXCEPT ![r] = "no"]

\* llm.invoke returns: its content is the output.
ChatInvokeReturns(r) ==
    /\ pc[r] = "chat_invoking"
    /\ \E text \in Answers : response' = [response EXCEPT ![r] = [output |-> text]]
    /\ pc' = [pc EXCEPT ![r] = "chat_returned"]
    /\ UNCHANGED <<envVars, session_store, req, events, llm, msgs, produced,
                   raised, consumer, call, ret>>
    /\ waiting' = [waiting EXCEPT ![r] = "no"]

\* llm.invoke raises: the error is returned as the output.
ChatInvokeRaises(r) ==
    /\ pc[r] = "chat_invoking"
    /\ \E e \in BackendFailures :
         /\ raised' = [raised EXCEPT ![r] = Append(@, e)]
         /\ response' = [response EXCEPT ![r] = chat_except(e)]
    /\ pc' = [pc EXCEPT ![r] = "chat_returned"]
    /\ UNCHANGED <<envVars, session_store, req, events, llm, msgs, produced,
                   consumer, call, ret>>
    /\ waiting' = [waiting EXCEPT ![r] = "no"]

\* --------------------------------------------- specification: the handlers

Init ==
    /\ OLLAMA_AVAILABLE \in BOOLEAN
    /\ provider \in Providers
    /\ daemon \in HandlerDaemons
    /\ store_imported \in BOOLEAN
    /\ Quiet
    /\ call = NoCall
    /\ ret = Pending

Next ==
    \E r \in Reqs :
        \/ SseRequest(r)
        \/ SseFallbackToken(r)
        \/ SseFallbackDone(r)
        \/ SseOpen(r)
        \/ SseOpenFails(r)
        \/ SseChunk(r)
        \/ SseStreamRaises(r)
        \/ SseStreamEnds(r)
        \/ SseErrorDone(r)
        \/ SseReturn(r)
        \/ ChatArrives(r)
        \/ ChatFallback(r)
        \/ ChatResolveFails(r)
        \/ ChatInvoke(r)
        \/ ChatInvokeReturns(r)
        \/ ChatInvokeRaises(r)

Spec == Init /\ [][Next]_vars

\* Characters of generated contents: a letter, whitespace, the heading mark,
\* the backtick, a punctuation mark, a quote.
TitleAlphabet == {"a", " ", "\n", "#", Backtick, ".", "'"}

\* Generated contents long enough to hold an opening and a closing fence.
FenceTexts == SeqsUpTo({Backtick, "a", "\n"}, MaxText + 4)

\* A fenced block, a heading line, a text line.
FenceHeadingText ==
    Backticks \o <<"code", " ", "fence">> \o Backticks
        \o <<"\n", "#", " ", "Heading", "\n", "Deploy", " ", "the", " ", "service">>

SampleTexts ==
    {FenceHeadingText,
     <<"Explain", " ", "binary", " ", "search">>,
     <<"a", " ", "b", " ", "c", " ", "d", " ", "e", " ", "f", " ", "g", " ", "h">>,
     <<"\"", "a", " ", "b", "\"", "?", "!">>,
     <<"#", "#", " ", "\n", "#", "a", "\t", "-">>}

MaxWordsValues == {-1, 0, 1, 2, 6}

TitleRoles == {user, <<"U", "s", "e", "r">>, assistant}

TitleItems == [role : TitleRoles, content : {<<>>, <<" ">>, <<"a">>, <<"b", ".">>}]

UserSays(content) == <<[role |-> user, content |-> content]>>

\* Calls of _heuristic_title: one user message with a generated content, for
\* every max_words; one with fences; lists that differ in roles and blanks.
HeuristicCalls ==
    [fn : {"_heuristic_title"},
     messages : {UserSays(c) : c \in SeqsUpTo(TitleAlphabet, MaxText) \cup SampleTexts},
     max_words : MaxWordsValues]
    \cup [fn : {"_heuristic_title"},
          messages : {UserSays(c) : c \in FenceTexts},
          max_words : {6}]
    \cup [fn : {"_heuristic_title"},
          messages : SeqsUpTo(TitleItems, MaxTitleMessages),
          max_words : {1, 6}]

\* ----------------------------------------- specification: model resolution

InitResolve ==
    /\ OLLAMA_AVAILABLE = TRUE
    /\ provider \in Providers
    /\ daemon \in Daemons
    /\ store_imported = TRUE
    /\ Quiet
    /\ call \in [fn : {"get_llm"}, model : {None, ""} \cup ModelIds, streaming : BOOLEAN]
    /\ ret = Pending

\* One call of get_llm(model=..., streaming=...).
ResolveCall ==
    /\ call.fn = "get_llm"
    /\ ret = Pending
    /\ ret' = get_llm(call.model, call.streaming)
    /\ UNCHANGED <<envVars, session_store, reqVars, waiting, consumer, call>>

NextResolve == ResolveCall

SpecResolve == InitResolve /\ [][NextResolve]_vars

\* ------------------------------------------------- claims: model resolution

\* The installed set: the named entries of /api/tags of a reachable daemon.
InstalledSet ==
    IF daemon.online
    THEN {daemon.tags[i] : i \in 1..Len(daemon.tags)} \ {""}
    ELSE {}

Resolved == call.fn = "get_llm" /\ ret # Pending /\ provider = "ok"

\* C5: a non-empty requested identifier is returned unchanged when it is
\* installed; otherwise get_llm raises a not-installed error whose message
\* names the requested identifier and the whole installed list.  No other
\* identifier is ever substituted.
C5_RequestedOrNotInstalled ==
    (Resolved /\ ~Falsy(call.model)) =>
        IF call.model \in InstalledSet
        THEN /\ ret.tag = "return"
             /\ ret.value.model = call.model
        ELSE /\ ret.tag = "raise"
             /\ Len(ret.message) = 6
             /\ ret.message[2] = call.model
             /\ {ret.message[6][i] : i \in 1..Len(ret.message[6])} = InstalledSet

\* C5 witness: "gpt-99" requested with llama3.1 and mistral:7b installed.
C5_Witness ==
    /\ Resolved
    /\ call.model = "gpt-99"
    /\ daemon = [online |-> TRUE, tags |-> <<"llama3.1", "mistral:7b">>]
    /\ ret.tag = "raise"

\* The position of the first preferred identifier that is installed, 0 if none.
C6_FirstPreferred(pref) ==
    LET hits == {i \in 1..Len(pref) : pref[i] \in InstalledSet}
    IN  IF hits = {} THEN 0 ELSE CHOOSE i \in hits : \A j \in hits : i <= j

\* C6: for a None or "" request get_llm never raises: it returns the first of
\* llama3.1:8b, llama3.1, llama3:8b, qwen2.5:7b, mistral:7b that is installed,
\* else the first installed name, else "llama3.1".
C6_EmptyRequestDefault ==
    (Resolved /\ Falsy(call.model)) =>
        LET pref == <<"llama3.1:8b", "llama3.1", "llama3:8b", "qwen2.5:7b", "mistral:7b">>
            k == C6_FirstPreferred(pref)
            named == SelectSeq(daemon.tags, LAMBDA n : n # "")
        IN  /\ ret.tag = "return"
            /\ ret.value.model =
                   IF k > 0 THEN pref[k]
                   ELSE IF InstalledSet # {} THEN named[1]
                   ELSE "llama3.1"

\* C6 witness: no identifier requested, two preferred identifiers installed in
\* the reverse of the preference order.
C6_Witness ==
    /\ Resolved
    /\ call.model = None
    /\ daemon = [online |-> TRUE, tags |-> <<"mistral:7b", "llama3.1">>]
    /\ ret.tag = "return"
    /\ ret.value.model = "llama3.1"

\* ----------------------------------------- specification: message assembly

InitAssemble ==
    /\ OLLAMA_AVAILABLE = TRUE
    /\ provider = "ok"
    /\ daemon = [online |-> TRUE, tags |-> <<>>]
    /\ store_imported = TRUE
    /\ Quiet
    /\ call \in [fn : {"build_messages"}, system : Systems, history : Histories,
                 message : Messages]
    /\ ret = Pending

\* One run of the message-list statements of a handler.
AssembleCall ==
    /\ call.fn = "build_messages"
    /\ ret = Pending
    /\ ret' = Return(build_messages(call.system, call.history, call.message))
    /\ UNCHANGED <<envVars, session_store, reqVars, waiting, consumer, call>>

NextAssemble == AssembleCall

SpecAssemble == InitAssemble /\ [][NextAssemble]_vars

\* -------------------------------------------------- claims: message assembly

\* A role that reads "assistant" when case is ignored.
C10_IsAssistant(role) ==
    LET lo == <<"a", "s", "s", "i", "s", "t", "a", "n", "t">>
        up == <<"A", "S", "S", "I", "S", "T", "A", "N", "T">>
    IN  /\ Len(role) = 9
        /\ \A i \in 1..9 : role[i] \in {lo[i], up[i]}

\* C10: the assembled input is the [SYSTEM] user entry iff the system prompt
\* has a non-blank character, then the last min(len(history), 10) history
\* items in order (assistant roles, whatever their case, as assistant entries,
\* all other roles as user entries), then the message as a user entry; so its
\* length is (1 if system non-blank else 0) + min(len(history), 10) + 1.
C10_AssembledInput ==
    (call.fn = "build_messages" /\ ret # Pending) =>
        LET out == ret.value
            h == call.history
            n == Len(h)
            k == IF n < 10 THEN n ELSE 10
            sysOn == \E i \in 1..Len(call.system) : call.system[i] \notin {" ", "\t", "\n"}
            off == IF sysOn THEN 1 ELSE 0
        IN  /\ ret.tag = "return"
            /\ Len(out) = off + k + 1
            /\ sysOn =>
                 /\ out[1].type = "human"
                 /\ out[1].content =
                        <<"[", "S", "Y", "S", "T", "E", "M", "]", "\n">> \o call.system
            /\ \A j \in 1..k :
                 out[off + j] =
                     [type |-> IF C10_IsAssistant(h[n - k + j].role) THEN "ai" ELSE "human",
                      content |-> h[n - k + j].content]
            /\ out[off + k + 1] = [type |-> "human", content |-> call.message]

\* C10 witness: a system prompt with text and more than 10 history items.
C10_Witness ==
    /\ call.fn = "build_messages"
    /\ ret # Pending
    /\ Len(call.history) > 10
    /\ call.system = <<" ", "s">>
    /\ Len(ret.value) = 12

\* ------------------------------------------------------ claims: streaming

SsePcs == {"sse_created", "sse_fallback", "sse_streaming", "sse_error", "sse_done",
           "sse_closed"}

OnSse(r) == pc[r] \in SsePcs

\* The positions of the events of one type.
Positions(ev, type) == {i \in 1..Len(ev) : ev[i].type = type}

\* C1: in every stream (fallback, normal end, failure obtaining the handle,
\* failure during iteration) a done event is never followed by another event,
\* and a stream that has ended holds exactly one done event, its last event.
C1_DoneOnceAndLast ==
    \A r \in Reqs :
        OnSse(r) =>
            /\ \A i \in Positions(events[r], "done") : i = Len(events[r])
            /\ pc[r] \in {"sse_done", "sse_closed"} =>
                   /\ Cardinality(Positions(events[r], "done")) = 1
                   /\ events[r][Len(events[r])].type = "done"

\* C1 witness: a stream that failed during iteration, after a token, and ended.
C1_Witness ==
    /\ pc[1] = "sse_closed"
    /\ Positions(events[1], "token") # {}
    /\ Positions(events[1], "error") # {}

\* C2: each failure of get_llm or of the chunk iteration yields exactly one
\* error event, carrying that failure's message; only done follows it; the
\* generator handles the failure itself and goes on to done; a stream without
\* a failure holds no error event.
C2_FailureBecomesOneError ==
    \A r \in Reqs :
        OnSse(r) =>
            LET errs == SelectSeq(events[r], LAMBDA e : e.type = "error")
            IN  /\ Len(errs) = Len(raised[r])
                /\ Len(raised[r]) <= 1
                /\ \A i \in 1..Len(errs) : errs[i].message = raised[r][i]
                /\ \A i \in Positions(events[r], "error") :
                       \A j \in (i + 1)..Len(events[r]) : events[r][j].type = "done"
                /\ raised[r] # <<>> => pc[r] \in {"sse_error", "sse_done", "sse_closed"}
                /\ (raised[r] # <<>> /\ pc[r] \in {"sse_done", "sse_closed"}) =>
                       events[r][Len(events[r])].type = "done"

\* C2 witness: get_llm raised and the stream ended with error, done.
C2_Witness ==
    /\ pc[1] = "sse_closed"
    /\ llm[1] = Unset
    /\ Len(raised[1]) = 1
    /\ Len(events[1]) = 2
    /\ events[1][1].type = "error"

\* C3: with OLLAMA_AVAILABLE false the stream is the informational token and
\* then done, for any request: the events yielded so far are a prefix of
\* these two and an ended stream holds both.
C3_FallbackTwoEvents ==
    \A r \in Reqs :
        (OnSse(r) /\ ~OLLAMA_AVAILABLE) =>
            /\ Len(events[r]) <= 2
            /\ Len(events[r]) >= 1 =>
                   /\ events[r][1].type = "token"
                   /\ events[r][1].text # <<>>
            /\ Len(events[r]) = 2 => events[r][2] = [type |-> "done"]
            /\ pc[r] \in {"sse_done", "sse_closed"} => Len(events[r]) = 2

\* C3 witness: a fallback stream that ended, for a request naming a model.
C3_Witness ==
    /\ ~OLLAMA_AVAILABLE
    /\ pc[1] = "sse_closed"
    /\ req[1].model = "mistral:7b"
    /\ Len(events[1]) = 2

\* C7: the token events of a stream that iterates the backend are the chunks
\* with non-empty text produced so far, one token per chunk, in production
\* order; no token event of any stream has empty text.
C7_TokensAreNonEmptyChunks ==
    \A r \in Reqs :
        OnSse(r) =>
            LET toks == SelectSeq(events[r], LAMBDA e : e.type = "token")
                full == SelectSeq(produced[r], LAMBDA c : c.content # <<>>)
            IN  /\ \A i \in 1..Len(toks) : toks[i].text # <<>>
                /\ OLLAMA_AVAILABLE =>
                       /\ Len(toks) = Len(full)
                       /\ \A i \in 1..Len(toks) : toks[i].text = full[i].content

\* C7 witness: chunks "b", empty, "a" were produced and the stream ended.
C7_Witness ==
    /\ pc[1] = "sse_closed"
    /\ produced[1] = <<[content |-> <<"b">>], [content |-> <<>>], [content |-> <<"a">>]>>
    /\ Cardinality(Positions(events[1], "token")) = 2

\* C8: a stream holds at most one meta event; once the handle is obtained the
\* meta event is the first event, ahead of every token and error; a stream
\* whose get_llm raised, and a fallback stream, hold no meta event.
C8_MetaFirstOrAbsent ==
    \A r \in Reqs :
        OnSse(r) =>
            /\ Cardinality(Positions(events[r], "meta")) <= 1
            /\ llm[r] # Unset =>
                   /\ Len(events[r]) >= 1
                   /\ Positions(events[r], "meta") = {1}
            /\ llm[r] = Unset => Positions(events[r], "meta") = {}

\* C8 witness: a stream with meta, a token and then an error.
C8_Witness ==
    /\ OnSse(1)
    /\ llm[1] # Unset
    /\ Len(events[1]) >= 3
    /\ events[1][1].type = "meta"
    /\ events[1][2].type = "token"
    /\ events[1][3].type = "error"

\* --------------------------------------------------- claims: one-shot chat

\* C9: chat always answers with an output: the fixed notice when
\* OLLAMA_AVAILABLE is false, and the failure text inside the output when
\* get_llm or llm.invoke raised; the failure ends the handler in its return.
C9_ChatAlwaysAnswers ==
    \A r \in Reqs :
        /\ pc[r] = "chat_returned" =>
               /\ "output" \in DOMAIN response[r]
               /\ ~OLLAMA_AVAILABLE =>
                      response[r].output =
                          <<"Backend is running, but langchain-ollama is not installed.">>
               /\ raised[r] # <<>> =>
                      response[r].output = <<"Error from model: ", raised[r][1]>>
        /\ (pc[r] \in {"chat_called", "chat_invoking", "chat_returned"} /\ raised[r] # <<>>) =>
               pc[r] = "chat_returned"

\* C9 witness: the requested model is not installed and chat returned.
C9_Witness ==
    /\ pc[1] = "chat_returned"
    /\ Len(raised[1]) = 1
    /\ raised[1][1][1] = "Requested model '"
    /\ daemon.online

\* ------------------------------------------- claims: the handlers' default

\* The resolver's rule for a request naming no model.
C4_EmptyRule ==
    LET pref == <<"llama3.1:8b", "llama3.1", "llama3:8b", "qwen2.5:7b", "mistral:7b">>
        k == C6_FirstPreferred(pref)
        named == SelectSeq(daemon.tags, LAMBDA n : n # "")
    IN  IF k > 0 THEN pref[k]
        ELSE IF InstalledSet # {} THEN named[1]
        ELSE "llama3.1"

\* C4: a chat or stream request naming no model is resolved by the resolver's
\* empty-request rule, so with the provider importable its resolution does not
\* fail and the handle is for the rule's identifier.
C4_NoModelUsesEmptyRule ==
    \A r \in Reqs :
        (/\ pc[r] \in {"sse_streaming", "sse_error", "sse_done", "sse_closed",
                       "chat_invoking", "chat_returned"}
         /\ OLLAMA_AVAILABLE
         /\ provider = "ok"
         /\ Falsy(req[r].model)) =>
            /\ llm[r] # Unset
            /\ llm[r].model = C4_EmptyRule

\* ------------------------------------------ specification: title heuristic

InitHeuristic ==
    /\ OLLAMA_AVAILABLE = TRUE
    /\ provider = "ok"
    /\ daemon = [online |-> TRUE, tags |-> <<>>]
    /\ store_imported = TRUE
    /\ Quiet
    /\ call \in HeuristicCalls
    /\ ret = Pending

\* One call of _heuristic_title(messages, max_words).
HeuristicCall ==
    /\ call.fn = "_heuristic_title"
    /\ ret = Pending
    /\ ret' = Return(heuristic_title(call.messages, call.max_words))
    /\ UNCHANGED <<envVars, session_store, reqVars, waiting, consumer, call>>

NextHeuristic == HeuristicCall

SpecHeuristic == InitHeuristic /\ [][NextHeuristic]_vars

\* ------------------------------------------------ claims: title heuristic

HeuristicDone == call.fn = "_heuristic_title" /\ ret # Pending

C17_NonBlank(t) == \E i \in 1..Len(t) : t[i] \notin {" ", "\t", "\n"}

C17_IsUser(role) ==
    /\ Len(role) = 4
    /\ \A i \in 1..4 : role[i] \in {<<"u", "s", "e", "r">>[i], <<"U", "S", "E", "R">>[i]}

\* The content the title is taken from: of the last user turn with non-blank
\* content, else of the last turn with non-blank content, else "New Chat".
C17_Source(ms) ==
    LET users == {i \in 1..Len(ms) : C17_IsUser(ms[i].role) /\ C17_NonBlank(ms[i].content)}
        anyone == {i \in 1..Len(ms) : C17_NonBlank(ms[i].content)}
        last(S) == CHOOSE i \in S : \A j \in S : j <= i
    IN  IF users # {} THEN ms[last(users)].content
        ELSE IF anyone # {} THEN ms[last(anyone)].content
        ELSE <<"New", " ", "Chat">>

\* C17: the heuristic title is the cleaning of the content of the most recent
\* user turn (role compared without case) with non-blank content, else of the
\* most recent turn with non-blank content, else of "New Chat"; and it is
\* "New Chat" whenever that cleaning leaves nothing.
C17_SourceSelection ==
    HeuristicDone =>
        LET cleaned == clean_text(strip(C17_Source(call.messages)), call.max_words)
        IN  /\ ret.tag = "return"
            /\ ret.value = IF cleaned = <<>> THEN <<"New", " ", "Chat">> ELSE cleaned

\* C17 witness: the last turn is the assistant's, the last user turn is blank,
\* an earlier user turn carries the title.
C17_Witness ==
    /\ HeuristicDone
    /\ call.messages = <<[role |-> <<"U", "s", "e", "r">>, content |-> <<"a">>],
                         [role |-> user, content |-> <<" ">>],
                         [role |-> assistant, content |-> <<"b", ".">>]>>
    /\ ret.value = <<"a">>

ScenarioD == call.messages = UserSays(FenceHeadingText) /\ call.max_words = 6

\* C18 as stated: for the fenced block, the line "# Heading" and the line
\* "Deploy the service" with max_words 6 the title is "Deploy the service".
C18_HeadingTextDropped ==
    (HeuristicDone /\ ScenarioD) =>
        ret.value = <<"Deploy", " ", "the", " ", "service">>

\* C18 amended: for that message the fence and the heading mark "# " are
\* stripped, the heading's text stays, and the title is
\* "Heading Deploy the service".
C18_HeadingMarkStripped ==
    (HeuristicDone /\ ScenarioD) =>
        ret.value = <<"Heading", " ", "Deploy", " ", "the", " ", "service">>

\* C18 witness: the heuristic has run on that message.
C18_Witness == HeuristicDone /\ ScenarioD /\ Len(ret.value) = 7

\* --------------------------------------------------- app.py: generate_title

TitleRequests ==
    [messages : {<<>>,
                 UserSays(<<"a", " ", "b", " ", "c">>),
                 UserSays(FenceHeadingText),
                 <<[role |-> user, content |-> <<"#", " ", "a", ".">>],
                   [role |-> assistant, content |-> <<"b">>]>>},
     model : {None, "mistral:7b"},
     max_words : {0, 1, 2, 6}]

\* What the boost's llm.invoke may answer: nothing, only quotes and
\* punctuation, two lines, eight words.
TitleAnswers ==
    {<<>>,
     <<"\"", ".", "\"">>,
     <<" ", "A", " ", "b", ".", "\n", "x">>,
     <<"a", " ", "b", " ", "c", " ", "d", " ", "e", " ", "f", " ", "g", " ", "h">>}

\* `base = _heuristic_title(req.messages, max_words=req.max_words)`.
base(rq) == heuristic_title(rq.messages, rq.max_words)

\* Lines 188-191: strip, first line, strip, remove quote characters, remove
\* trailing punctuation; splitlines()[0] of an empty text raises IndexError.
boost_clean(content) ==
    LET txt == strip(content)
        brk == {k \in 1..Len(txt) : txt[k] \in {"\n", "\r", "\f"}}
        first == IF brk = {} THEN txt
                 ELSE SubSeq(txt, 1, (CHOOSE k \in brk : \A j \in brk : k <= j) - 1)
        unquoted == SelectSeq(strip(first), LAMBDA c : c \notin {"\"", "'", Backtick})
    IN  IF txt = <<>> THEN Raise(<<"list index out of range">>)
        ELSE Return(rstrip_punct(unquoted))

\* An except clause that answers with the failure.
title_except_reported(rq, e) == [error |-> e]

\* `except asyncio.TimeoutError: pass` and `except Exception: pass`, then
\* `return {"title": base}`.
title_except(rq, e) == [title |-> base(rq)]

\* generate_title(req) is called.
TitleArrives(r) ==
    /\ pc[r] = "idle"
    /\ \E rq \in TitleRequests : req' = [req EXCEPT ![r] = rq]
    /\ pc' = [pc EXCEPT ![r] = "title_called"]
    /\ UNCHANGED <<envVars, session_store, events, llm, msgs, produced, response,
                   raised, consumer, call, ret>>
    /\ waiting' = [waiting EXCEPT ![r] = "no"]

\* `if OLLAMA_AVAILABLE:` is false: the heuristic title is returned.
TitleNoBoost(r) ==
    /\ pc[r] = "title_called"
    /\ ~OLLAMA_AVAILABLE
    /\ response' = [response EXCEPT ![r] = [title |-> base(req[r])]]
    /\ pc' = [pc EXCEPT ![r] = "title_returned"]
    /\ UNCHANGED <<envVars, session_store, req, events, llm, msgs, produced,
                   raised, consumer, call, ret>>
    /\ waiting' = [waiting EXCEPT ![r] = "no"]

\* get_llm(model=req.model, streaming=False) raises.
TitleResolveFails(r) ==
    /\ pc[r] = "title_called"
    /\ OLLAMA_AVAILABLE
    /\ LET got == get_llm(req[r].model, FALSE)
       IN  /\ got.tag = "raise"
           /\ raised' = [raised EXCEPT ![r] = Append(@, got.message)]
           /\ response' = [response EXCEPT ![r] = title_except(req[r], got.message)]
    /\ pc' = [pc EXCEPT ![r] = "title_returned"]
    /\ UNCHANGED <<envVars, session_store, req, events, llm, msgs, produced,
                   consumer, call, ret>>
    /\ waiting' = [waiting EXCEPT ![r] = "no"]

\* get_llm returns: llm.invoke(prompt) is handed to the executor and the
\* handler awaits it under wait_for(timeout=2.0).
TitleBoost(r) ==
    /\ pc[r] = "title_called"
    /\ OLLAMA_AVAILABLE
    /\ LET got == get_llm(req[r].model, FALSE)
       IN  /\ got.tag = "return"
           /\ llm' = [llm EXCEPT ![r] = got.value]
    /\ pc' = [pc EXCEPT ![r] = "title_waiting"]
    /\ UNCHANGED <<envVars, session_store, req, events, msgs, produced, response,
                   raised, consumer, call, ret>>
    /\ waiting' = [waiting EXCEPT ![r] = "no"]

\* The executor call answers in time: the cleaned first line is the title
\* unless it is empty or the cleaning raises.
TitleBoostReturns(r) ==
    /\ pc[r] = "title_waiting"
    /\ \E content \in TitleAnswers :
         LET txt == boost_clean(content)
         IN  /\ produced' = [produced EXCEPT ![r] = <<content>>]
             /\ IF txt.tag = "raise"
                THEN /\ raised' = [raised EXCEPT ![r] = Append(@, txt.message)]
                     /\ response' = [response EXCEPT ![r] = title_except(req[r], txt.message)]
                ELSE /\ raised' = raised
                     /\ response' = [response EXCEPT ![r] =
                                        IF txt.value # <<>> THEN [title |-> txt.value]
                                        ELSE [title |-> base(req[r])]]
    /\ pc' = [pc EXCEPT ![r] = "title_returned"]
    /\ UNCHANGED <<envVars, session_store, req, events, llm, msgs, consumer, call, ret>>
    /\ waiting' = [waiting EXCEPT ![r] = "no"]

\* The executor call raises in time.
TitleBoostRaises(r) ==
    /\ pc[r] = "title_waiting"
    /\ \E e \in BackendFailures :
         /\ raised' = [raised EXCEPT ![r] = Append(@, e)]
         /\ response' = [response EXCEPT ![r] = title_except(req[r], e)]
    /\ pc' = [pc EXCEPT ![r] = "title_returned"]
    /\ UNCHANGED <<envVars, session_store, req, events, llm, msgs, produced,
                   consumer, call, ret>>
    /\ waiting' = [waiting EXCEPT ![r] = "no"]

\* wait_for's timeout expires: TimeoutError is raised in the handler, which
\* returns the heuristic title; the executor's thread is still in llm.invoke.
TitleTimeout(r) ==
    /\ pc[r] = "title_waiting"
    /\ raised' = [raised EXCEPT ![r] = Append(@, <<"TimeoutError">>)]
    /\ response' = [response EXCEPT ![r] = title_except(req[r], <<"TimeoutError">>)]
    /\ pc' = [pc EXCEPT ![r] = "title_returned_in_flight"]
    /\ UNCHANGED <<envVars, session_store, req, events, llm, msgs, produced,
                   consumer, call, ret>>
    /\ waiting' = [waiting EXCEPT ![r] = "no"]

\* The abandoned llm.invoke ends in its thread: nobody awaits its future.
TitleLateResult(r) ==
    /\ pc[r] = "title_returned_in_flight"
    /\ \E content \in TitleAnswers : produced' = [produced EXCEPT ![r] = <<content>>]
    /\ pc' = [pc EXCEPT ![r] = "title_returned"]
    /\ UNCHANGED <<envVars, session_store, req, events, llm, msgs, response,
                   raised, consumer, call, ret>>
    /\ waiting' = [waiting EXCEPT ![r] = "no"]

\* ------------------------------------------- specification: title handler

NextTitle ==
    \E r \in Reqs :
        \/ TitleArrives(r)
        \/ TitleNoBoost(r)
        \/ TitleResolveFails(r)
        \/ TitleBoost(r)
        \/ TitleBoostReturns(r)
        \/ TitleBoostRaises(r)
        \/ TitleTimeout(r)
        \/ TitleLateResult(r)

SpecTitle == Init /\ [][NextTitle]_vars

\* -------------------------------------------------- claims: title handler

TitleReturned(r) == pc[r] \in {"title_returned", "title_returned_in_flight"}

\* The whitespace-delimited tokens of a text.
C11_Tokens(t) ==
    Cardinality({i \in 1..Len(t) :
                    /\ t[i] \notin {" ", "\t", "\n", "\r", "\f"}
                    /\ (i = 1 \/ t[i - 1] \in {" ", "\t", "\n", "\r", "\f"})})

\* C11 as stated: whatever the messages, max_words and the boost's outcome,
\* the returned title is non-empty and has at most max_words
\* whitespace-delimited tokens.
C11_TitleWithinMaxWords ==
    \A r \in Reqs :
        TitleReturned(r) =>
            /\ response[r].title # <<>>
            /\ C11_Tokens(response[r].title) <= req[r].max_words

\* The boost gave no title: it was not tried, it timed out, something was
\* raised, or the cleaned answer is empty.
C12_NoBoostTitle(r) ==
    \/ ~OLLAMA_AVAILABLE
    \/ raised[r] # <<>>
    \/ produced[r] = <<>>
    \/ boost_clean(produced[r][1]) = Return(<<>>)

\* C12: a called title handler can take its next step whatever get_llm does,
\* and what it returns is a title: the heuristic title of the same request whenever the
\* boost timed out, resolution failed, the invoke raised or the cleaned answer
\* is empty; after the timeout it has returned while the model call is still
\* in flight, and the late result leaves the returned title as it was.
C12_FailureGivesHeuristic ==
    \A r \in Reqs :
        /\ pc[r] = "title_called" =>
               (~OLLAMA_AVAILABLE \/ get_llm(req[r].model, FALSE).tag \in {"raise", "return"})
        /\ TitleReturned(r) =>
               /\ DOMAIN response[r] = {"title"}
               /\ C12_NoBoostTitle(r) =>
                      response[r].title =
                          heuristic_title(req[r].messages, req[r].max_words)
        /\ pc[r] = "title_returned_in_flight" => produced[r] = <<>>

\* C12 witness: the boost timed out, the title was returned, and the answer
\* of the abandoned call has arrived since.
C12_Witness ==
    \E r \in Reqs :
        /\ pc[r] = "title_returned"
        /\ raised[r] = <<<<"TimeoutError">>>>
        /\ produced[r] = <<<<" ", "A", " ", "b", ".", "\n", "x">>>>
        /\ response[r].title = heuristic_title(req[r].messages, req[r].max_words)

\* ----------------------------------------------------- claims: meta event

\* C16 as stated: the meta event of a stream carries the resolved model
\* identifier and, as history length, the number of history turns that are in
\* the assembled model input: the smaller of len(history) and 10.
C16_MetaHistoryIsEffective ==
    \A r \in Reqs :
        OnSse(r) =>
            \A i \in Positions(events[r], "meta") :
                /\ events[r][i].model = llm[r].model
                /\ events[r][i].history = Min(Len(req[r].history), HistoryLimit)
                /\ events[r][i].history =
                       Len(msgs[r]) - 1 - (IF Falsy(req[r].system) THEN 0 ELSE 1)

\* ------------------------------------------------- app.py: the event loop

\* The handlers are coroutines of one event loop: one of them runs at a time,
\* from one await or yield to the next.  event_stream contains no await, so
\* get_session_history, get_llm (list_models: requests.get) and the iteration
\* of llm.stream run on the loop's thread; chat and generate_title call
\* get_llm the same way and hand llm.invoke to the executor.
Tasks == {1, 2}

LoopRequests ==
    {rq \in ChatRequests :
        /\ rq.model = "mistral:7b"
        /\ rq.system = <<>>
        /\ Len(rq.history) > 0
        /\ Falsy(rq.conversation_id) => Len(rq.history) < HistoryLimit}

\* The requests and backend streams followed with two handlers at once.
LoopInputs(r) ==
    /\ req[r] \in LoopRequests \cup {Unset}
    /\ Len(produced[r]) <= LoopChunks
    /\ \A i \in 1..Len(produced[r]) : produced[r][i].content \in {<<>>, <<"a">>}

\* The loop's thread is free: no handler is inside a synchronous call.
Runs(r) == \A q \in DOMAIN waiting : waiting[q] = "no"

\* Handler r is resumed and enters a synchronous backend call: requests.get
\* of list_models, reached from get_llm, or the next chunk of llm.stream.
SyncCallStarts(r) ==
    /\ Runs(r)
    /\ consumer[r] = "listening"
    /\ \/ pc[r] \in {"sse_created", "chat_called", "title_called"}
             /\ OLLAMA_AVAILABLE /\ provider = "ok"
       \/ pc[r] = "sse_streaming"
    /\ waiting' = [waiting EXCEPT ![r] = "blocking"]
    /\ UNCHANGED <<envVars, session_store, reqVars, consumer, call, ret>>

\* The consumer of a stream goes away, at any moment.
ConsumerDisconnects(r) ==
    /\ pc[r] \in {"sse_created", "sse_streaming", "sse_error", "sse_done"}
    /\ consumer[r] = "listening"
    /\ consumer' = [consumer EXCEPT ![r] = "gone"]
    /\ UNCHANGED <<envVars, session_store, reqVars, waiting, call, ret>>

\* The generator is closed where it is suspended.  At a yield inside the try
\* GeneratorExit passes `except Exception` and reaches `finally`, whose yield
\* goes to the closer (RuntimeError there); at the yield of `finally`, or
\* before the first resumption, the generator just ends.
SseAborted(r) ==
    /\ Runs(r)
    /\ consumer[r] = "gone"
    /\ pc[r] \in {"sse_created", "sse_streaming", "sse_error", "sse_done"}
    /\ events' = [events EXCEPT ![r] =
                     IF pc[r] \in {"sse_streaming", "sse_error"} THEN @ \o sse_finally ELSE @]
    /\ pc' = [pc EXCEPT ![r] = "sse_aborted"]
    /\ UNCHANGED <<envVars, session_store, req, llm, msgs, produced, response,
                   raised, waiting, consumer, call, ret>>

\* -------------------------------------------- specification: two requests

InitLoop ==
    /\ OLLAMA_AVAILABLE = TRUE
    /\ provider = "ok"
    /\ daemon \in {[online |-> TRUE, tags |-> <<"mistral:7b">>],
                   [online |-> FALSE, tags |-> <<"llama3.1">>]}
    /\ store_imported = TRUE
    /\ session_store = <<>>
    /\ pc = [r \in Tasks |-> "idle"]
    /\ req = [r \in Tasks |-> Unset]
    /\ events = [r \in Tasks |-> <<>>]
    /\ llm = [r \in Tasks |-> Unset]
    /\ msgs = [r \in Tasks |-> <<>>]
    /\ produced = [r \in Tasks |-> <<>>]
    /\ response = [r \in Tasks |-> Unset]
    /\ raised = [r \in Tasks |-> <<>>]
    /\ waiting = [r \in Tasks |-> "no"]
    /\ consumer = [r \in Tasks |-> "listening"]
    /\ call = NoCall
    /\ ret = Pending

\* The steps of a handler: a request arrives; the handler enters a synchronous
\* call; the call ends and the handler runs to its next yield, await or
\* return; the handler is resumed from a yield or an await.
NextLoop ==
    \E r \in Tasks :
        \/ Runs(r) /\ SseRequest(r) /\ LoopInputs(r)'
        \/ Runs(r) /\ ChatArrives(r) /\ LoopInputs(r)'
        \/ SyncCallStarts(r)
        \/ waiting[r] = "blocking" /\ SseOpen(r)
        \/ waiting[r] = "blocking" /\ SseOpenFails(r)
        \/ waiting[r] = "blocking" /\ SseChunk(r) /\ LoopInputs(r)'
        \/ waiting[r] = "blocking" /\ SseStreamRaises(r)
        \/ waiting[r] = "blocking" /\ SseStreamEnds(r)
        \/ waiting[r] = "blocking" /\ ChatResolveFails(r)
        \/ waiting[r] = "blocking" /\ ChatInvoke(r)
        \/ Runs(r) /\ consumer[r] = "listening" /\ SseErrorDone(r)
        \/ Runs(r) /\ consumer[r] = "listening" /\ SseReturn(r)
        \/ Runs(r) /\ ChatInvokeReturns(r)
        \/ Runs(r) /\ ChatInvokeRaises(r)
        \/ ConsumerDisconnects(r)
        \/ SseAborted(r)

SpecLoop == InitLoop /\ [][NextLoop]_vars

\* ---------------------------------------------------- claims: concurrency

\* Handler r has run the seeding block of event_stream.
C13_Seeded(r) ==
    /\ pc[r] \in {"sse_streaming", "sse_error", "sse_done", "sse_closed", "sse_aborted"}
    /\ llm[r] # Unset \/ raised[r] # <<>>

\* The contents of the turns handler r appends to session sid, in its order.
C13_Turns(r, sid) ==
    IF C13_Seeded(r) /\ session_id_of(req[r]) = sid
    THEN LET h == req[r].history
             n == Min(Len(h), 10)
         IN  [k \in 1..n |-> h[Len(h) - n + k].content]
    ELSE <<>>

\* C13: with two streams seeding at once, every session of the store holds
\* exactly the turns of the handlers that seeded it, each handler's turns
\* together and in its own order (one handler's after the other's): none
\* lost, doubled or moved, and no session replaced by the second handler.
C13_NoLostTurns ==
    /\ DOMAIN session_store =
           {session_id_of(req[r]) : r \in {q \in Tasks : C13_Seeded(q)}}
    /\ \A sid \in DOMAIN session_store :
           LET stored == [k \in 1..Len(session_store[sid]) |-> session_store[sid][k].content]
           IN  stored \in {C13_Turns(1, sid) \o C13_Turns(2, sid),
                           C13_Turns(2, sid) \o C13_Turns(1, sid)}

\* C13 witness: both handlers have seeded session s1, with 2 and with 10
\* turns, while the first of them is inside its next backend read.
C13_Witness ==
    /\ C13_Seeded(1) /\ C13_Seeded(2)
    /\ req[1].conversation_id = "s1" /\ req[2].conversation_id = "s1"
    /\ Len(req[1].history) = 2 /\ Len(req[2].history) > HistoryLimit
    /\ waiting[1] = "blocking"
    /\ Len(session_store["s1"]) = 2 + HistoryLimit

\* Handler a is waiting on the backend: inside requests.get or the read of
\* the next chunk, or awaiting llm.invoke in the executor.
C14_WaitsOnBackend(a) == waiting[a] = "blocking" \/ pc[a] = "chat_invoking"

\* C14 as stated: while one request is waiting on the backend (listing the
\* models, invoke, reading the next chunk), another request can be started,
\* and a started one can take its next step.
C14_BackendWaitIsolated ==
    \A a \in Tasks : \A b \in Tasks \ {a} :
        C14_WaitsOnBackend(a) =>
            /\ pc[b] = "idle" => ENABLED (Runs(b) /\ SseRequest(b))
            /\ pc[b] = "sse_done" /\ consumer[b] = "listening" =>
                   ENABLED (Runs(b) /\ SseReturn(b))

\* ----------------------------------------------------- claims: disconnect

\* The reads of backend chunks the generator of r has started.
C15_Reads(r) ==
    Len(produced[r]) + (IF waiting[r] = "blocking" /\ pc[r] = "sse_streaming" THEN 1 ELSE 0)

\* C15 as stated: once the consumer of a stream is gone, the generator starts
\* no further read of a backend chunk and yields no further token.
C15_NoReadAfterDisconnect ==
    [][\A r \in Tasks :
           consumer[r] = "gone" =>
               /\ C15_Reads(r)' <= C15_Reads(r)
               /\ Cardinality(Positions(events'[r], "token"))
                      = Cardinality(Positions(events[r], "token"))]_vars

\* --------------------------------------- specification: request after request

InitSessions ==
    /\ Init
    /\ provider = "ok"
    /\ daemon.tags \in {<<>>, <<"mistral:7b">>}

\* health(), ollama_health() or models() is called and answers: the fixed
\* status; is_online() and the number of list_models(); list_models().  With
\* the provider's import failed is_online is no name of app.py (the NameError
\* is caught) and list_models is the stub.
StatusRead(r) ==
    /\ pc[r] = "idle"
    /\ LET names == IF provider = "import_failed" THEN <<>> ELSE list_models
       IN  \/ response' = [response EXCEPT ![r] = [status |-> "ok"]]
           \/ response' = [response EXCEPT ![r] =
                              [online |-> provider # "import_failed" /\ daemon.online,
                               models |-> Len(names)]]
           \/ response' = [response EXCEPT ![r] = [models |-> names]]
    /\ pc' = [pc EXCEPT ![r] = "read_returned"]
    /\ UNCHANGED <<envVars, session_store, req, events, llm, msgs, produced,
                   raised, consumer, call, ret>>
    /\ waiting' = [waiting EXCEPT ![r] = "no"]

\* The handler of r has ended; the next request takes its place.  The store
\* is the module's and stays.
Recycle(r) ==
    /\ pc[r] \in {"sse_closed", "chat_returned", "title_returned", "read_returned"}
    /\ \A sid \in DOMAIN session_store : Len(session_store[sid]) <= MaxStoredTurns
    /\ pc' = [pc EXCEPT ![r] = "idle"]
    /\ req' = [req EXCEPT ![r] = Unset]
    /\ events' = [events EXCEPT ![r] = <<>>]
    /\ llm' = [llm EXCEPT ![r] = Unset]
    /\ msgs' = [msgs EXCEPT ![r] = <<>>]
    /\ produced' = [produced EXCEPT ![r] = <<>>]
    /\ response' = [response EXCEPT ![r] = Unset]
    /\ raised' = [raised EXCEPT ![r] = <<>>]
    /\ UNCHANGED <<envVars, session_store, waiting, consumer, call, ret>>

NextSessions ==
    \E r \in Reqs :
        \/ SseRequest(r) /\ LoopInputs(r)'
        \/ SseFallbackToken(r)
        \/ SseFallbackDone(r)
        \/ SseOpen(r)
        \/ SseOpenFails(r)
        \/ SseChunk(r) /\ LoopInputs(r)'
        \/ SseStreamRaises(r)
        \/ SseStreamEnds(r)
        \/ SseErrorDone(r)
        \/ SseReturn(r)
        \/ ChatArrives(r) /\ LoopInputs(r)'
        \/ ChatFallback(r)
        \/ ChatResolveFails(r)
        \/ ChatInvoke(r)
        \/ ChatInvokeReturns(r)
        \/ ChatInvokeRaises(r)
        \/ TitleArrives(r) /\ req'[r].max_words = 6
        \/ TitleNoBoost(r)
        \/ TitleResolveFails(r)
        \/ TitleBoost(r)
        \/ TitleBoostReturns(r)
        \/ TitleBoostRaises(r)
        \/ TitleTimeout(r)
        \/ TitleLateResult(r)
        \/ StatusRead(r)
        \/ Recycle(r)

SpecSessions == InitSessions /\ [][NextSessions]_vars

\* ------------------------------------------------- claims: session store

\* C19: whatever chat, stream and title operations follow one another, every
\* step leaves every session in the store, and leaves the turns a session
\* holds where they are: a session changes only by turns added at its end.
C19_SessionsAppendOnly ==
    [][\A sid \in DOMAIN session_store :
           /\ sid \in DOMAIN session_store'
           /\ Len(session_store'[sid]) >= Len(session_store[sid])
           /\ SubSeq(session_store'[sid], 1, Len(session_store[sid])) = session_store[sid]]_vars

\* C19 witness: session s1 was seeded by two streams, with 2 and then 10
\* turns, a second session exists, and a title request has been answered
\* since.
C19_Witness ==
    /\ DOMAIN session_store = {"s1", "default"}
    /\ Len(session_store["s1"]) = 2 + HistoryLimit
    /\ session_store["s1"][2].content = ContentOf(2)
    /\ session_store["s1"][3].content = ContentOf(3)
    /\ pc[1] = "title_returned"

\* ------------------------------------------- claims: mirroring best effort

\* The events of a stream as the request and the backend alone determine
\* them: meta once the handle is there, a token for every chunk with text, an
\* error for what get_llm or llm.stream raised, done at the end.
C20_BackendEvents(r) ==
    LET meta == IF llm[r] = Unset THEN <<>>
                ELSE <<[type |-> "meta", model |-> llm[r].model,
                        history |-> Len(req[r].history)]>>
        full == SelectSeq(produced[r], LAMBDA c : c.content # <<>>)
        tokens == [i \in 1..Len(full) |-> [type |-> "token", text |-> full[i].content]]
        errors == [i \in 1..Len(raised[r]) |-> [type |-> "error", message |-> raised[r][i]]]
        done == IF pc[r] \in {"sse_done", "sse_closed"} THEN <<[type |-> "done"]>> ELSE <<>>
    IN  meta \o tokens \o errors \o done

\* C20: with the integration present the events of a stream are those the
\* request and the backend determine, the same whether the session store
\* could be used or get_session_history raised; a store that failed adds no
\* error event and holds nothing.
C20_MirroringFailureSwallowed ==
    \A r \in Reqs :
        (OnSse(r) /\ OLLAMA_AVAILABLE) =>
            /\ events[r] = C20_BackendEvents(r)
            /\ ~store_imported => session_store = <<>>

\* C20 witness: the store is unavailable, the request carries history and a
\* conversation id, and the stream gave meta, a token and done.
C20_Witness ==
    /\ OLLAMA_AVAILABLE /\ ~store_imported
    /\ pc[1] = "sse_closed"
    /\ req[1].conversation_id = "s1" /\ Len(req[1].history) = 2
    /\ Len(events[1]) = 3
    /\ events[1][2] = [type |-> "token", text |-> <<"a">>]

\* ---------------------------------------------------- claims: mirroring

\* The last 10 items of a history as turns: "ai" for the role assistant in
\* any case, "human" for every other role.
C21_Mirrored(h) ==
    LET n == Min(Len(h), 10)
    IN  [k \in 1..n |->
            LET item == h[Len(h) - n + k]
            IN  [type |-> IF C10_IsAssistant(item.role) THEN "ai" ELSE "human",
                 content |-> item.content]]

\* The turns session sid holds; none when it does not exist.
C21_Held(store, sid) == IF sid \in DOMAIN store THEN store[sid] ELSE <<>>

\* The first resumption of the generator of r with the integration present.
C21_FirstResumption(r) ==
    pc[r] = "sse_created" /\ OLLAMA_AVAILABLE /\ pc'[r] \in {"sse_streaming", "sse_error"}

\* C21 as stated: every stream with the integration present appends the last
\* 10 history turns, in order and with the role mapping, to its session in
\* its first resumption, whether the handle is obtained or not; no later
\* step of the stream changes the store.
C21_EveryStreamMirrors ==
    [][\A r \in Reqs :
           /\ C21_FirstResumption(r) =>
                  LET sid == session_id_of(req[r])
                  IN  /\ sid \in DOMAIN session_store'
                      /\ session_store'[sid] =
                             C21_Held(session_store, sid) \o C21_Mirrored(req[r].history)
           /\ pc[r] \in {"sse_streaming", "sse_error", "sse_done"} =>
                  session_store' = session_store]_vars

\* C21 amended: with the integration present and the session store imported,
\* every stream appends the last 10 history turns, in order and with the role
\* mapping, to its session in its first resumption, whether the handle is
\* obtained or not; with the store's import failed that step leaves the store
\* as it was; no later step of the stream changes the store, so neither the
\* new message nor the answer is stored, and k streams with one history
\* leave k copies.
C21_StreamMirrorsIfStoreImported ==
    [][\A r \in Reqs :
           /\ (C21_FirstResumption(r) /\ store_imported) =>
                  LET sid == session_id_of(req[r])
                  IN  /\ sid \in DOMAIN session_store'
                      /\ session_store'[sid] =
                             C21_Held(session_store, sid) \o C21_Mirrored(req[r].history)
           /\ (C21_FirstResumption(r) /\ ~store_imported) =>
                  session_store' = session_store
           /\ pc[r] \in {"sse_streaming", "sse_error", "sse_done"} =>
                  session_store' = session_store]_vars

\* C21 witness: two streams with the same two history turns have left two
\* copies of them in session s1, and the second stream failed to get its
\* handle.
C21_Witness ==
    /\ pc[1] = "sse_error"
    /\ llm[1] = Unset
    /\ req[1].conversation_id = "s1"
    /\ Len(req[1].history) = 2
    /\ "s1" \in DOMAIN session_store
    /\ session_store["s1"] = C21_Mirrored(req[1].history) \o C21_Mirrored(req[1].history)

\* ------------------------------------------------ claims: store frame

\* C22: a step changes the session store only if it is the first resumption
\* of a stream with the integration present, and then every session but the
\* request's own stays, with its turns; so chat, title, the health and model
\* reads and the fallback stream leave the whole store as it was.
C22_OnlyOwnStreamChangesStore ==
    [][session_store' # session_store =>
           \E r \in Reqs :
               /\ pc[r] = "sse_created" /\ OLLAMA_AVAILABLE
               /\ pc'[r] \in {"sse_streaming", "sse_error"}
               /\ DOMAIN session_store' \subseteq
                      DOMAIN session_store \cup {session_id_of(req[r])}
               /\ \A sid \in DOMAIN session_store \ {session_id_of(req[r])} :
                      /\ sid \in DOMAIN session_store'
                      /\ session_store'[sid] = session_store[sid]]_vars

\* C22 witness: session s1 holds the turns of two streams, and a stream for
\* session "default" has since stored its two turns.
C22_Witness ==
    /\ DOMAIN session_store = {"s1", "default"}
    /\ Len(session_store["s1"]) = 2 + HistoryLimit
    /\ pc[1] = "sse_streaming"
    /\ session_id_of(req[1]) = "default"
    /\ Len(session_store["default"]) = Len(req[1].history)

\* ---------------------------------------------- claims: default session

\* The first resumption of a stream, integration present, whose request
\* carries no conversation id or an empty one.
C23_UnkeyedStreamSeeds(r) ==
    /\ pc[r] = "sse_created" /\ OLLAMA_AVAILABLE
    /\ pc'[r] \in {"sse_streaming", "sse_error"}
    /\ req[r].conversation_id \in {None, ""}

\* C23 as stated: every stream whose request carries no conversation id, or
\* an empty one, mirrors its history into the one session "default": the
\* turns are added at the end of what that session holds, and the store does
\* not stay untouched.
C23_UnkeyedStreamsShareDefault ==
    [][\A r \in Reqs :
           C23_UnkeyedStreamSeeds(r) =>
               /\ DOMAIN session_store' = DOMAIN session_store \cup {"default"}
               /\ session_store'["default"] =
                      C21_Held(session_store, "default") \o C21_Mirrored(req[r].history)
               /\ session_store' # session_store]_vars

\* C23 amended: the same for every such stream when the session store was
\* imported; with the store's import failed the store stays untouched.  No
\* session is ever keyed by the absent or the empty id.
C23_UnkeyedStreamsShareDefaultIfStoreImported ==
    [][/\ \A r \in Reqs :
              C23_UnkeyedStreamSeeds(r) =>
                  IF store_imported
                  THEN /\ DOMAIN session_store' = DOMAIN session_store \cup {"default"}
                       /\ session_store'["default"] =
                              C21_Held(session_store, "default")
                                  \o C21_Mirrored(req[r].history)
                       /\ session_store' # session_store
                  ELSE session_store' = session_store
       /\ DOMAIN session_store' \cap {None, ""} = {}]_vars

\* C23 witness: a stream with the empty conversation id has added its two
\* turns to the two that session "default" held from an earlier stream.
C23_Witness ==
    /\ pc[1] = "sse_streaming"
    /\ req[1].conversation_id = ""
    /\ DOMAIN session_store = {"default"}
    /\ Len(session_store["default"]) = 2 * Len(req[1].history)

====
